---------------------------- MODULE Spec2Model ----------------------------
(***************************************************************************)
(* A model of the timeline synthesis pipeline                              *)
(* (src/src/agents/timeline_construction.py) and of the extraction         *)
(* contract layer (src/src/llm/interface.py) of agentic-news-rag.          *)
(*                                                                         *)
(* Numbers: a raw confidence and an importance score are counted in        *)
(* tenths (0.5 is 5); a merged confidence is an exact fraction [n, d]      *)
(* (n/d tenths).  A datetime is [t, aware]: t the instant, aware whether   *)
(* the value carries a UTC offset; Python refuses to order an aware and a  *)
(* naive datetime (TypeError).  Lists are sequences, indexed from 1; the   *)
(* oracle's indices are Python's, from 0.                                  *)
(***************************************************************************)
EXTENDS Integers, Sequences, FiniteSets, TLC

\* ------------------------------------------------------------- bounds
MaxEvents == 3        \* raw events in one construct_timeline call
MaxRetries == 3       \* largest configured llm.max_retries
MaxTokens == 4        \* tokens in one raw oracle response
MaxRequests == 2      \* prompt_llm requests made one after the other
MaxScored == 6        \* events handed to one _create_timeline call

\* -------------------------------------------------- program constants
MinConfidence == 5           \* timeline.min_confidence default 0.5
MinDescriptionLen == 10      \* len(description) > 10
ImportanceThreshold == 3     \* importance_threshold = 0.3
FallbackImportance == 5      \* event.importance_score = 0.5
DefaultImportance == 0       \* TimelineEvent.importance_score: float = 0.0
DatetimeMaxT == 9            \* datetime.max, the latest datetime there is

\* ---------------------------------------------------------- datetimes
None == [t |-> 0, aware |-> FALSE]
Naive(t) == [t |-> t, aware |-> FALSE]
Aware(t) == [t |-> t, aware |-> TRUE]
DatetimeMax == Naive(DatetimeMaxT)
IsDate(d) == d # None

\* ExtractedEvent: the fields the pipeline reads (date_text and source_text
\* only reach the prompts).
RawEvent(desc, date, ents, conf, art) ==
    [description |-> desc, date |-> date, entities |-> ents,
     confidence |-> conf, article_id |-> art]

DescriptionLen(desc) == IF desc = "short" THEN 5 ELSE 20

\* The events one extraction result may carry: dated with and without an
\* offset, dated at the latest datetime ('9999-12-31T23:59:59.999999'),
\* undated, two articles, confidences around the threshold, one description
\* too short to keep.
RawEventPool ==
    { RawEvent("descA", Naive(2), {"x"}, 9, "a1"),
      RawEvent("descB", Naive(1), {"y"}, 6, "a2"),
      RawEvent("descA", None, {"x", "z"}, 5, "a2"),
      RawEvent("descB", Aware(1), {}, 8, "a1"),
      RawEvent("descA", DatetimeMax, {"z"}, 7, "a2"),
      RawEvent("short", Naive(1), {"x"}, 9, "a1"),
      RawEvent("descB", Naive(2), {"y"}, 4, "a2") }

RECURSIVE SeqsUpTo(_, _)
SeqsUpTo(S, n) ==
    IF n = 0 THEN { <<>> }
    ELSE LET shorter == SeqsUpTo(S, n - 1)
         IN  shorter \cup { Append(s, x) : s \in { q \in shorter : Len(q) = n - 1 }, x \in S }

\* The raw events of one call: up to MaxEvents different records of the
\* pool, in any order.
RawEventLists ==
    { s \in SeqsUpTo(RawEventPool, MaxEvents) :
        \A i, j \in 1..Len(s) : i # j => s[i] # s[j] }

Range(s) == { s[i] : i \in 1..Len(s) }
Min(S) == CHOOSE x \in S : \A y \in S : x <= y

\* ---------------------------------------------------------- fractions
\* d = 0 is float('nan'): every comparison with it is False
Frac(n, d) == [n |-> n, d |-> d]
NaN == Frac(0, 0)
FracLe(a, b) == a.d # 0 /\ b.d # 0 /\ a.n * b.d <= b.n * a.d
FracLt(a, b) == a.d # 0 /\ b.d # 0 /\ a.n * b.d < b.n * a.d
\* Python's min(a, b): b when b < a, else a
FracMin(a, b) == IF FracLt(b, a) THEN b ELSE a

RECURSIVE SumConf(_)
SumConf(s) == IF s = <<>> THEN 0 ELSE Head(s).confidence + SumConf(Tail(s))

\* no request made yet
NoAnswer == [kind |-> "unset", items |-> <<>>]

VARIABLES
    pc,            \* the statement construct_timeline is at
    all_events,    \* ExtractedEvents converted from the extraction results
    valid_events,  \* _filter_events' result
    event_groups,  \* _group_similar_events' result
    events,        \* the TimelineEvents as the stages hand them on
    timeline,      \* the returned Timeline (read when pc = "done")
    raised,        \* the exception that escaped construct_timeline
    oracle_calls,  \* prompt_llm requests issued by this call
    cursor,        \* _estimate_dates' loop: the last position it handled
    scores,        \* what prompt_llm handed _score_importance
    relationships, \* what prompt_llm handed _identify_relationships (a local)
    answered,      \* whether a prompt_llm request of this call ended without LLMError
    max_retries,   \* LLMInterface.max_retries
    llm_pc,        \* where prompt_llm is: "idle", "loop", "returned", "raised"
    output_type,   \* the request's output_type
    attempt,       \* the loop variable of prompt_llm
    llm_calls,     \* oracle calls made for the request
    llm_result,    \* what the request returned
    requests,      \* requests made so far
    last_attempt,  \* how the latest turn of the loop went: "none", "ok", "failed"
    raw_content    \* the content _process_response returned a value for

VARIABLES
    x_pc,          \* where the extraction call is: "idle", "lookup", "extract", "returned"
    articles,      \* the articles handed to the call
    search_engine, \* whether a search engine (the cache) was handed in
    store,         \* the cached_extraction payloads the search engine holds
    cached_data,   \* what get_extraction_metadata returned, article by article
    to_process,    \* the positions of the articles left to extract
    position,      \* how many articles the running loop has handled
    results,       \* the list the call returns
    origin,        \* for every result, the position of its article
    handled,       \* for every article: oracle requests made, what failed
    updates,       \* the calls of update_extraction_metadata, in order
    previous,      \* for every article: what the call before this one did with it
    events_data,   \* the oracle's answer handed to _extract_events
    date_replies,  \* the oracle's replies to the date requests, item by item
    extracted      \* what _extract_events returned

tvars == <<pc, all_events, valid_events, event_groups, events, timeline, raised, oracle_calls, cursor, scores, relationships, answered>>
lvars == <<max_retries, llm_pc, output_type, attempt, llm_calls, llm_result, requests, last_attempt, raw_content>>
xvars == <<x_pc, articles, search_engine, store, cached_data, to_process, position,
           results, origin, handled, updates, previous, events_data, date_replies, extracted>>
vars == <<tvars, lvars, xvars>>

\* ------------------------------------------------- the oracle's raw text
\* A raw response is a sequence of tokens: brackets, braces, a scalar "v"
\* (inside braces: a key with its scalar), a comma, and the two markers of
\* a thinking block.
Tokens == { "[", "]", "{", "}", "v", ",", "<think>", "</think>" }
RawContents == SeqsUpTo(Tokens, MaxTokens)

Scalar == [type |-> "scalar", items |-> <<>>]
Container(type, items) == [type |-> type, items |-> items]
Failed == [ok |-> FALSE, val |-> Scalar, next |-> 0]
Parsed(val, next) == [ok |-> TRUE, val |-> val, next |-> next]

RECURSIVE ParseValue(_, _), ParseItems(_, _, _, _, _, _)
\* one JSON value starting at token i
ParseValue(toks, i) ==
    IF i > Len(toks) THEN Failed
    ELSE IF toks[i] = "v" THEN Parsed(Scalar, i + 1)
    ELSE IF toks[i] = "[" THEN ParseItems(toks, i + 1, "]", "list", <<>>, TRUE)
    ELSE IF toks[i] = "{" THEN ParseItems(toks, i + 1, "}", "dict", <<>>, TRUE)
    ELSE Failed

\* the elements of a container up to its closing token; a comma must be
\* followed by another element
ParseItems(toks, i, close, type, acc, first) ==
    IF i > Len(toks) THEN Failed
    ELSE IF first /\ toks[i] = close THEN Parsed(Container(type, acc), i + 1)
    ELSE LET r == ParseValue(toks, i)
         IN  IF ~r.ok \/ r.next > Len(toks) THEN Failed
             ELSE IF toks[r.next] = close
                  THEN Parsed(Container(type, Append(acc, r.val)), r.next + 1)
             ELSE IF toks[r.next] = ","
                  THEN ParseItems(toks, r.next + 1, close, type, Append(acc, r.val), FALSE)
             ELSE Failed

\* json.loads: the whole text is one value, or JSONDecodeError (ok = FALSE)
JsonLoads(toks) ==
    LET r == ParseValue(toks, 1)
    IN  IF r.ok /\ r.next = Len(toks) + 1 THEN r ELSE Failed

RECURSIVE StripThinkingBlocks(_)
\* re.sub(r'<think>.*?</think>', '', content): each opening marker goes
\* with everything up to the next closing marker
StripThinkingBlocks(toks) ==
    IF toks = <<>> THEN <<>>
    ELSE IF Head(toks) = "<think>" /\ \E k \in 2..Len(toks) : toks[k] = "</think>"
         THEN LET close == Min({ k \in 2..Len(toks) : toks[k] = "</think>" })
              IN  StripThinkingBlocks(SubSeq(toks, close + 1, Len(toks)))
    ELSE <<Head(toks)>> \o StripThinkingBlocks(Tail(toks))

\* _clean_json_string on tokens: a comma right before } or ] goes
CleanJsonString(toks) ==
    LET Stays(k) == ~(toks[k] = "," /\ k < Len(toks) /\ toks[k + 1] \in {"}", "]"})
        keep == SelectSeq([k \in 1..Len(toks) |-> k], Stays)
    IN  [k \in 1..Len(keep) |-> toks[keep[k]]]

\* re.search(r'\[.*\]', content, re.DOTALL): first "[" to last "]"
ArraySpan(toks) ==
    LET opens == { k \in 1..Len(toks) : toks[k] = "[" }
        closes == { k \in 1..Len(toks) : toks[k] = "]" }
    IN  IF opens = {} \/ closes = {} THEN <<>>
        ELSE LET from == Min(opens)
                 to == CHOOSE k \in closes : \A j \in closes : j <= k
             IN  IF from < to THEN SubSeq(toks, from, to) ELSE <<>>

RECURSIVE ObjectEnd(_, _, _)
\* r'\{[^{}]*(?:\{[^{}]*\}[^{}]*)*\}' from an opening brace: the position
\* of the closing brace of the match, 0 when there is none.  depth is 1
\* inside the outer braces, 2 inside an inner pair.
ObjectEnd(toks, i, depth) ==
    IF i > Len(toks) THEN 0
    ELSE IF toks[i] = "}" THEN (IF depth = 1 THEN i ELSE ObjectEnd(toks, i + 1, 1))
    ELSE IF toks[i] = "{" THEN (IF depth = 1 THEN ObjectEnd(toks, i + 1, 2) ELSE 0)
    ELSE ObjectEnd(toks, i + 1, depth)

RECURSIVE ObjectSpans(_, _)
\* re.findall of the object pattern from position i on: the matches, left
\* to right, none overlapping
ObjectSpans(toks, i) ==
    IF i > Len(toks) THEN <<>>
    ELSE IF toks[i] = "{" /\ ObjectEnd(toks, i + 1, 1) # 0
         THEN <<SubSeq(toks, i, ObjectEnd(toks, i + 1, 1))>>
                 \o ObjectSpans(toks, ObjectEnd(toks, i + 1, 1) + 1)
    ELSE ObjectSpans(toks, i + 1)

\* _extract_json_objects_from_array
ExtractJsonObjectsFromArray(toks) ==
    LET spans == ObjectSpans(toks, 1)
        IsDict(sp) == JsonLoads(sp).ok /\ JsonLoads(sp).val.type = "dict"
        good == SelectSeq(spans, IsDict)
    IN  [k \in 1..Len(good) |-> JsonLoads(good[k]).val]

Returned(val) == [kind |-> "return", val |-> val]
Raised(exc) == [kind |-> exc, val |-> Scalar]

\* _parse_json_array without the isinstance test on the whole text
ParseJsonArrayAnyShape(content) ==
    LET whole == JsonLoads(content)
        span == ArraySpan(content)
        cleaned == JsonLoads(CleanJsonString(span))
    IN  IF whole.ok THEN Returned(whole.val)
        ELSE IF span = <<>> THEN Returned(Container("list", <<>>))
        ELSE IF cleaned.ok THEN Returned(cleaned.val)
        ELSE Returned(Container("list", ExtractJsonObjectsFromArray(CleanJsonString(span))))

\* _parse_json_array
ParseJsonArray(content) ==
    LET whole == JsonLoads(content)
        span == ArraySpan(content)
        cleaned == JsonLoads(CleanJsonString(span))
    IN  IF whole.ok
        THEN (IF whole.val.type = "list" THEN Returned(whole.val)
              ELSE Raised("JSONParseError"))
        ELSE IF span = <<>> THEN Returned(Container("list", <<>>))
        ELSE IF cleaned.ok
             THEN (IF cleaned.val.type = "list" THEN Returned(cleaned.val)
                   ELSE Raised("JSONParseError"))
        ELSE Returned(Container("list", ExtractJsonObjectsFromArray(CleanJsonString(span))))

\* _parse_json_object
ParseJsonObject(content) ==
    LET whole == JsonLoads(content)
        spans == ObjectSpans(content, 1)
        cleaned == JsonLoads(CleanJsonString(spans[1]))
    IN  IF whole.ok
        THEN (IF whole.val.type = "dict" THEN Returned(whole.val)
              ELSE Raised("JSONParseError"))
        ELSE IF spans = <<>> THEN Returned(Container("dict", <<>>))
        ELSE IF cleaned.ok
             THEN (IF cleaned.val.type = "dict" THEN Returned(cleaned.val)
                   ELSE Raised("JSONParseError"))
        ELSE Returned(Container("dict", <<>>))

\* _process_response with strip_thinking = True; a str result keeps its
\* type only
ProcessResponse(raw, type) ==
    LET content == StripThinkingBlocks(raw)
    IN  IF type = "text" THEN Returned(Container("str", <<>>))
        ELSE IF type = "json_array" THEN ParseJsonArray(content)
        ELSE ParseJsonObject(content)

\* ------------------------------------------------------------ prompt_llm
DefaultMaxRetries == 3
NoResult == [kind |-> "pending", val |-> Scalar]
\* the function ends without a return statement
ReturnsNone == [kind |-> "None", val |-> Scalar]

LLMIdle ==
    /\ max_retries = DefaultMaxRetries
    /\ llm_pc = "idle"
    /\ output_type = "text"
    /\ attempt = 0
    /\ llm_calls = 0
    /\ llm_result = NoResult
    /\ requests = 0
    /\ last_attempt = "none"
    /\ raw_content = <<>>

\* Three articles; the text of the third holds '3000 years ago', a phrase
\* _resolve_temporal_reference turns into a date before year 1.
ArticlePool ==
    { [file_path |-> "a1", ancient |-> FALSE],
      [file_path |-> "a2", ancient |-> FALSE],
      [file_path |-> "a3", ancient |-> TRUE] }

\* str(uuid.uuid5(uuid.NAMESPACE_DNS, str(article.file_path)))
ArticleId(article) == <<"uuid5", article.file_path>>

\* no extraction result (None)
NoExtraction == [article_id |-> "", events |-> <<>>, entities |-> <<>>, temporal_references |-> <<>>]

\* nothing done for the article yet
NotHandled == [requests |-> 0, failed |-> {}, passing |-> 0]

ExtractIdle ==
    /\ x_pc = "idle"
    /\ articles = <<>>
    /\ search_engine = FALSE
    /\ store = [id \in { ArticleId(a) : a \in ArticlePool } |-> NoExtraction]
    /\ cached_data = <<>>
    /\ to_process = <<>>
    /\ position = 0
    /\ results = <<>>
    /\ origin = <<>>
    /\ handled = <<>>
    /\ updates = <<>>
    /\ previous = <<>>
    /\ events_data = NoAnswer
    /\ date_replies = <<>>
    /\ extracted = <<>>

OutputTypes == { "text", "json_array", "json_object" }

\* for attempt in range(self.max_retries): whether the loop has a turn
LoopRuns(retries) == retries > 0

\* lines 98-120: a request with valid parameters reaches the loop
Request ==
    /\ llm_pc \in { "idle", "returned", "raised" }
    /\ requests < MaxRequests
    /\ requests' = requests + 1
    /\ \E type \in OutputTypes : output_type' = type
    /\ attempt' = 0
    /\ llm_calls' = 0
    /\ last_attempt' = "none"
    /\ IF LoopRuns(max_retries)
       THEN llm_pc' = "loop" /\ llm_result' = NoResult
       ELSE llm_pc' = "returned" /\ llm_result' = ReturnsNone
    /\ raw_content' = <<>>
    /\ UNCHANGED <<tvars, xvars, max_retries>>

\* What one oracle call does: the client raises, or there is a response
\* with this content (empty content raises LLMError inside the try).
Outcomes ==
    { [kind |-> "error", raw_content |-> <<>>] }
    \cup [ kind : {"response"}, raw_content : RawContents ]

\* lines 122-138: the result of the try block
TryBlock(outcome, type) ==
    IF outcome.kind = "error" THEN Raised("Exception")
    ELSE IF outcome.raw_content = <<>> THEN Raised("LLMError")
    ELSE ProcessResponse(outcome.raw_content, type)

\* the test of line 142 written as attempt == self.max_retries
LastAttemptOffByOne(n, retries) == n = retries

\* line 142: attempt == self.max_retries - 1
LastAttempt(n, retries) == n = retries - 1

\* one turn of the loop, lines 120-144
Attempt ==
    /\ llm_pc = "loop"
    /\ llm_calls' = llm_calls + 1
    /\ \E outcome \in Outcomes :
          LET r == TryBlock(outcome, output_type)
          IN  IF r.kind = "return"
              THEN /\ llm_pc' = "returned"
                   /\ llm_result' = r
                   /\ attempt' = attempt
                   /\ last_attempt' = "ok"
                   /\ raw_content' = outcome.raw_content
              ELSE /\ last_attempt' = "failed"
                   /\ raw_content' = <<>>
                   /\ IF LastAttempt(attempt, max_retries)
                      THEN /\ llm_pc' = "raised"
                           /\ llm_result' = Raised("LLMError")
                           /\ attempt' = attempt
                      ELSE /\ llm_pc' = "loop"
                           /\ llm_result' = llm_result
                           /\ attempt' = attempt + 1
    /\ UNCHANGED <<tvars, xvars, max_retries, output_type, requests>>

NoTimeline ==
    [events |-> <<>>, date_range |-> <<None, None>>, confidence |-> Frac(0, 1),
     completeness_score |-> Frac(0, 1), consistency_score |-> 0,
     metadata |-> [total_events |-> 0, dated_events |-> 0,
                   estimated_dates |-> 0, causal_relationships |-> 0]]

Init ==
    /\ pc = "filter"
    /\ all_events \in RawEventLists
    /\ valid_events = <<>>
    /\ event_groups = <<>>
    /\ events = <<>>
    /\ timeline = NoTimeline
    /\ raised = "None"
    /\ oracle_calls = 0
    /\ cursor = 0
    /\ scores = NoAnswer
    /\ relationships = NoAnswer
    /\ answered = FALSE
    /\ LLMIdle
    /\ ExtractIdle

\* _filter_events with line 146 dropping a confidence equal to the minimum
KeepAboveMinimum(event) ==
    /\ event.confidence > MinConfidence
    /\ DescriptionLen(event.description) > MinDescriptionLen

\* _filter_events
Keep(event) ==
    /\ event.confidence >= MinConfidence
    /\ DescriptionLen(event.description) > MinDescriptionLen

FilterEvents(evs) == SelectSeq(evs, Keep)

Filter ==
    /\ pc = "filter"
    /\ valid_events' = FilterEvents(all_events)
    /\ pc' = "group"
    /\ UNCHANGED <<all_events, event_groups, events, timeline, raised, oracle_calls, cursor, scores, relationships, answered, lvars, xvars>>

\* ------------------------------------------------ what prompt_llm hands back
\* A request ends by raising LLMError, by returning None (max_retries = 0,
\* see PromptLLM below) or by returning the parsed value.
Raise == [kind |-> "LLMError", items |-> <<>>]
NoneValue == [kind |-> "None", items |-> <<>>]
List(items) == [kind |-> "list", items |-> items]

\* One element of the grouping answer: a list of integers, a list holding
\* something that is no integer (0 <= i raises TypeError), or no list at all.
Idx(s) == [kind |-> "list", idx |-> s]
BadIdx == [kind |-> "badlist", idx |-> <<>>]
NotAList == [kind |-> "other", idx |-> <<>>]

\* The grouping answers tried for n events: failure, no value, an empty
\* array, a proper grouping, omitted indices, an index in two groups, an
\* index twice in one group, out-of-range indices, a non-list element, a
\* wrongly typed index.
GroupAnswers(n) ==
    { Raise, NoneValue,
      List(<<>>),
      List(<<Idx(<<0, 1>>)>>),
      List(<<Idx(<<1>>), Idx(<<0>>)>>),
      List(<<Idx(<<n - 1, 0>>)>>),
      List(<<Idx(<<0, 1>>), Idx(<<1>>)>>),
      List(<<Idx(<<0, 0>>)>>),
      List(<<Idx(<<0, n>>), Idx(<<-1>>)>>),
      List(<<NotAList, Idx(<<1>>)>>),
      List(<<Idx(<<>>), Idx(<<0>>)>>),
      List(<<BadIdx>>) }

\* A group is the list of the positions (1..n, the objects' identities) in
\* valid_events of its members.
\* [events[i] for i in group_indices if 0 <= i < len(events)]
InRange(idx, n) ==
    LET Ok(i) == 0 <= i /\ i < n
        kept == SelectSeq(idx, Ok)
    IN  [k \in 1..Len(kept) |-> kept[k] + 1]

\* each event is its own group
Singletons(n) == [k \in 1..n |-> <<k>>]

\* lines 210-215: the groups the answer names, empty ones dropped
NamedGroups(items, n) ==
    LET IsList(it) == it.kind = "list"
        NonEmpty(g) == g # <<>>
        lists == SelectSeq(items, IsList)
    IN  SelectSeq([k \in 1..Len(lists) |-> InRange(lists[k].idx, n)], NonEmpty)

\* lines 218-221
UsedIndices(items) ==
    UNION { Range(items[k].idx) : k \in { j \in 1..Len(items) : items[j].kind = "list" } }

\* lines 224-226: the events no group names, one group each, in input order
Ungrouped(items, n) ==
    LET Unused(k) == (k - 1) \notin UsedIndices(items)
        all == [k \in 1..n |-> k]
        left == SelectSeq(all, Unused)
    IN  [k \in 1..Len(left) |-> <<left[k]>>]

\* _group_similar_events for n events, answer being what prompt_llm did
GroupSimilarEvents(n, answer) ==
    IF n <= 1 THEN << [k \in 1..n |-> k] >>
    ELSE IF answer.kind # "list" THEN Singletons(n)
    ELSE IF \E k \in 1..Len(answer.items) : answer.items[k].kind = "badlist"
         THEN Singletons(n)
    ELSE NamedGroups(answer.items, n) \o Ungrouped(answer.items, n)

\* _deduplicate_events up to the merge loop: no events, no groups; one
\* event, no request.
Group ==
    /\ pc = "group"
    /\ LET n == Len(valid_events)
       IN  \/ /\ n = 0
              /\ event_groups' = <<>>
              /\ UNCHANGED <<oracle_calls, answered>>
           \/ /\ n = 1
              /\ event_groups' = GroupSimilarEvents(n, Raise)
              /\ UNCHANGED <<oracle_calls, answered>>
           \/ /\ n >= 2
              /\ \E answer \in GroupAnswers(n) :
                    /\ event_groups' = GroupSimilarEvents(n, answer)
                    /\ answered' = (answered \/ answer.kind # "LLMError")
              /\ oracle_calls' = oracle_calls + 1
    /\ pc' = IF Len(valid_events) = 0 THEN "estimate" ELSE "merge"
    /\ UNCHANGED <<all_events, valid_events, events, timeline, raised, cursor, scores, relationships, lvars, xvars>>

\* ------------------------------------------------------- TimelineEvent
\* id = f"timeline_event_{hash(description)}"
EventId(desc) == <<"timeline_event", desc>>

\* oid is the object's identity: its position in merged_events.
TimelineEvent(oid, desc, date, ents, srcs, conf) ==
    [oid |-> oid, id |-> EventId(desc), description |-> desc, date |-> date,
     estimated_date |-> None, entities |-> ents, sources |-> srcs,
     confidence |-> conf, causal_relationships |-> <<>>,
     importance_score |-> DefaultImportance]

\* The merge answers: failure, no value, or an object whose three keys are
\* each absent, wrongly typed or usable; json.loads reads NaN as a float.
Missing == [kind |-> "missing", val |-> {}, num |-> 0]
BadType == [kind |-> "bad", val |-> {}, num |-> 0]
Entities(es) == [kind |-> "ok", val |-> es, num |-> 0]
Number(c) == [kind |-> "ok", val |-> {}, num |-> c]
NotANumber == [kind |-> "nan", val |-> {}, num |-> 0]

MergeAnswers ==
    { [kind |-> "LLMError", merged_description |-> "", all_entities |-> Missing, confidence |-> Missing],
      [kind |-> "None", merged_description |-> "", all_entities |-> Missing, confidence |-> Missing] }
    \cup
    [ kind : {"dict"},
      merged_description : {"", "descM"},
      all_entities : {Missing, BadType, Entities({"x"})},
      confidence : {Missing, BadType, Number(2), Number(10), NotANumber} ]

\* sum(event.confidence for event in events) / len(events)
AvgConfidence(members) == Frac(SumConf(members), Len(members))

\* the last member with a date
RECURSIVE LastDate(_)
LastDate(members) ==
    IF members = <<>> THEN None
    ELSE IF IsDate(LastDate(Tail(members))) THEN LastDate(Tail(members))
    ELSE Head(members).date

\* the first member with a date, lines 294-300
RECURSIVE BestDate(_)
BestDate(members) ==
    IF members = <<>> THEN None
    ELSE IF IsDate(Head(members).date) THEN Head(members).date
    ELSE BestDate(Tail(members))

\* only the first member's article
PrimarySource(members) == { members[1].article_id }

AllSources(members) == { members[k].article_id : k \in 1..Len(members) }
AllEntities(members) == UNION { members[k].entities : k \in 1..Len(members) }

\* lines 326-338
MergeFallback(oid, members) ==
    LET primary == members[1]
    IN  TimelineEvent(oid, primary.description, primary.date,
                      AllEntities(members), AllSources(members),
                      AvgConfidence(members))

\* min(merge_data.get('confidence', avg_confidence), avg_confidence)
MergedConfidence(reported, avg) ==
    IF reported.kind = "missing" THEN FracMin(avg, avg)
    ELSE IF reported.kind = "nan" THEN FracMin(NaN, avg)
    ELSE FracMin(Frac(reported.num, 1), avg)

\* lines 289-322; "" is a dict without 'merged_description'
MergeWithAnswer(oid, members, answer) ==
    IF \/ answer.kind # "dict"
       \/ answer.all_entities.kind = "bad"
       \/ answer.confidence.kind = "bad"
       \/ answer.merged_description = ""
    THEN MergeFallback(oid, members)
    ELSE TimelineEvent(oid, answer.merged_description, BestDate(members),
                       answer.all_entities.val, AllSources(members),
                       MergedConfidence(answer.confidence, AvgConfidence(members)))

\* lines 238-250 with entities left at the dataclass's empty list
MergeSingletonWithoutEntities(oid, event) ==
    TimelineEvent(oid, event.description, event.date, {},
                  {event.article_id}, Frac(event.confidence, 1))

\* lines 238-250
MergeSingleton(oid, event) ==
    TimelineEvent(oid, event.description, event.date, event.entities,
                  {event.article_id}, Frac(event.confidence, 1))

Members(group) == [k \in 1..Len(group) |-> valid_events[group[k]]]

\* one turn of the loop of _deduplicate_events: _merge_event_group
MergeEventGroup ==
    /\ pc = "merge"
    /\ LET oid == Len(events) + 1
           members == Members(event_groups[oid])
       IN  /\ \/ /\ Len(members) = 1
                 /\ events' = Append(events, MergeSingleton(oid, members[1]))
                 /\ UNCHANGED <<oracle_calls, answered>>
              \/ /\ Len(members) > 1
                 /\ \E answer \in MergeAnswers :
                       /\ events' = Append(events, MergeWithAnswer(oid, members, answer))
                       /\ answered' = (answered \/ answer.kind # "LLMError")
                 /\ oracle_calls' = oracle_calls + 1
           /\ pc' = IF oid = Len(event_groups) THEN "estimate" ELSE "merge"
    /\ UNCHANGED <<all_events, valid_events, event_groups, timeline, raised, cursor, scores, relationships, lvars, xvars>>

\* ------------------------------------------------------ _estimate_dates
\* What the estimate answer holds under 'estimated_date': nothing (absent,
\* null or ""), a value that is no string, a string fromisoformat rejects,
\* or an ISO date.
NoEstimate == [kind |-> "missing", date |-> None]
BadEstimate == [kind |-> "bad", date |-> None]
Unparseable == [kind |-> "unparseable", date |-> None]
IsoDate(d) == [kind |-> "ok", date |-> d]

EstimateAnswers ==
    { [kind |-> "LLMError", estimated_date |-> NoEstimate],
      [kind |-> "None", estimated_date |-> NoEstimate] }
    \cup
    [ kind : {"dict"},
      estimated_date : {NoEstimate, BadEstimate, Unparseable,
                        IsoDate(Naive(1)), IsoDate(Aware(2))} ]

\* _estimate_event_date: every failure ends in None
EstimateEventDate(answer) ==
    IF answer.kind = "dict" /\ answer.estimated_date.kind = "ok"
    THEN answer.estimated_date.date
    ELSE None

Dated(evs) == { k \in 1..Len(evs) : IsDate(evs[k].date) }
\* line 360 without the test "if not e.date"
EveryEvent(evs) == 1..Len(evs)
Undated(evs) == { k \in 1..Len(evs) : ~IsDate(evs[k].date) }

\* one turn of the loop of lines 366-369
EstimateDate ==
    /\ pc = "estimate"
    /\ Dated(events) # {}
    /\ \E k \in Undated(events) : k > cursor
    /\ LET k == Min({ j \in Undated(events) : j > cursor })
       IN  /\ \E answer \in EstimateAnswers :
                 LET estimated_date == EstimateEventDate(answer)
                 IN  /\ events' = IF IsDate(estimated_date)
                                  THEN [events EXCEPT ![k].estimated_date = estimated_date]
                                  ELSE events
                     /\ answered' = (answered \/ answer.kind # "LLMError")
           /\ cursor' = k
    /\ oracle_calls' = oracle_calls + 1
    /\ UNCHANGED <<pc, all_events, valid_events, event_groups, timeline, raised, scores, relationships, lvars, xvars>>

\* line 362-363, or the loop's end
EstimateDone ==
    /\ pc = "estimate"
    /\ \/ Dated(events) = {}
       \/ ~ \E k \in Undated(events) : k > cursor
    /\ pc' = "sort"
    /\ cursor' = 0
    /\ UNCHANGED <<all_events, valid_events, event_groups, events, timeline, raised, oracle_calls, scores, relationships, answered, lvars, xvars>>

\* ------------------------------------------------ _sort_chronologically
\* get_sort_date
SortDate(event) ==
    IF IsDate(event.date) THEN event.date
    ELSE IF IsDate(event.estimated_date) THEN event.estimated_date
    ELSE DatetimeMax

\* a < b on datetimes raises TypeError when one is aware and one naive;
\* sorted() compares, directly or through a chain, every key with another
MixedKeys(dates) == \E a \in dates, b \in dates : a.aware # b.aware

RECURSIVE InsertByDate(_, _)
\* e goes behind every element that is not later than it: the sort is stable
InsertByDate(sorted, e) ==
    IF sorted = <<>> THEN <<e>>
    ELSE IF SortDate(e).t < SortDate(Head(sorted)).t THEN <<e>> \o sorted
    ELSE <<Head(sorted)>> \o InsertByDate(Tail(sorted), e)

RECURSIVE SortedFrom(_, _)
SortedFrom(sorted, rest) ==
    IF rest = <<>> THEN sorted
    ELSE SortedFrom(InsertByDate(sorted, Head(rest)), Tail(rest))

\* sorted(events, key=get_sort_date)
Sorted(evs) == SortedFrom(<<>>, evs)

SortChronologically ==
    /\ pc = "sort"
    /\ IF MixedKeys({ SortDate(events[k]) : k \in 1..Len(events) })
       THEN /\ raised' = "TypeError"
            /\ pc' = "raised"
            /\ events' = events
       ELSE /\ raised' = raised
            /\ pc' = "link"
            /\ events' = Sorted(events)
    /\ UNCHANGED <<all_events, valid_events, event_groups, timeline, oracle_calls, cursor, scores, relationships, answered, lvars, xvars>>

\* ---------------------------------------------- _identify_relationships
\* One element of the relationships answer: two integer indices, or
\* something the loop skips (no dict, a key missing, an index no integer).
Rel(c, e) == [kind |-> "ok", cause_event_id |-> c, effect_event_id |-> e]
BadRel == [kind |-> "bad", cause_event_id |-> 0, effect_event_id |-> 0]

LinkAnswers(n) ==
    { Raise, NoneValue,
      List(<<>>),
      List(<<Rel(0, 1)>>),
      List(<<Rel(n - 1, 0)>>),
      List(<<Rel(0, n)>>),
      List(<<Rel(-1, 0)>>),
      List(<<BadRel, Rel(0, 1)>>) }

\* lines 475-483 with cause and effect exchanged in line 480
ApplyRelationshipReversed(evs, rel) ==
    IF /\ rel.kind = "ok"
       /\ 0 <= rel.cause_event_id /\ rel.cause_event_id < Len(evs)
       /\ 0 <= rel.effect_event_id /\ rel.effect_event_id < Len(evs)
    THEN [evs EXCEPT ![rel.effect_event_id + 1].causal_relationships =
                        Append(@, evs[rel.cause_event_id + 1].id)]
    ELSE evs

\* lines 475-483 for one element
ApplyRelationship(evs, rel) ==
    IF /\ rel.kind = "ok"
       /\ 0 <= rel.cause_event_id /\ rel.cause_event_id < Len(evs)
       /\ 0 <= rel.effect_event_id /\ rel.effect_event_id < Len(evs)
    THEN [evs EXCEPT ![rel.cause_event_id + 1].causal_relationships =
                        Append(@, evs[rel.effect_event_id + 1].id)]
    ELSE evs

RECURSIVE ApplyRelationships(_, _)
ApplyRelationships(evs, rels) ==
    IF rels = <<>> THEN evs
    ELSE ApplyRelationships(ApplyRelationship(evs, Head(rels)), Tail(rels))

IdentifyRelationships ==
    /\ pc = "link"
    /\ \/ /\ Len(events) < 2
          /\ UNCHANGED <<events, oracle_calls, relationships, answered>>
       \/ /\ Len(events) >= 2
          /\ \E answer \in LinkAnswers(Len(events)) :
                /\ relationships' = answer
                /\ answered' = (answered \/ answer.kind # "LLMError")
                /\ events' = IF answer.kind = "list"
                             THEN ApplyRelationships(events, answer.items)
                             ELSE events
          /\ oracle_calls' = oracle_calls + 1
    /\ pc' = "score"
    /\ UNCHANGED <<all_events, valid_events, event_groups, timeline, raised, cursor, scores, lvars, xvars>>

\* ----------------------------------------------------- _score_importance
Score(i, v) == [kind |-> "ok", event_id |-> i, importance_score |-> v]
BadScore == [kind |-> "bad", event_id |-> 0, importance_score |-> 0]

\* The scoring answers for n events: failure, no value, nothing, every
\* event scored high or low, one event scored, ids and scores out of range,
\* an unusable element, one event scored twice.
ScoreAnswers(n) ==
    { Raise, NoneValue,
      List(<<>>),
      List([k \in 1..n |-> Score(k - 1, 9)]),
      List([k \in 1..n |-> Score(k - 1, 1)]),
      List(<<Score(0, 9)>>),
      List(<<Score(n - 1, 3)>>),
      List(<<Score(n, 9), Score(-1, 9)>>),
      List(<<Score(0, 15), Score(0, -1)>>),
      List(<<BadScore, Score(0, 9)>>),
      List(<<Score(0, 9), Score(0, 2)>>) }

\* lines 530-536 adding the score to the one the event has
ApplyScoreAdding(evs, sc) ==
    IF /\ sc.kind = "ok"
       /\ 0 <= sc.event_id /\ sc.event_id < Len(evs)
       /\ 0 <= sc.importance_score /\ sc.importance_score <= 10
    THEN [evs EXCEPT ![sc.event_id + 1].importance_score = @ + sc.importance_score]
    ELSE evs

\* lines 530-536 for one element; scores are tenths, 0 <= score <= 1
ApplyScore(evs, sc) ==
    IF /\ sc.kind = "ok"
       /\ 0 <= sc.event_id /\ sc.event_id < Len(evs)
       /\ 0 <= sc.importance_score /\ sc.importance_score <= 10
    THEN [evs EXCEPT ![sc.event_id + 1].importance_score = sc.importance_score]
    ELSE evs

RECURSIVE ApplyScores(_, _)
ApplyScores(evs, entries) ==
    IF entries = <<>> THEN evs
    ELSE ApplyScores(ApplyScore(evs, Head(entries)), Tail(entries))

\* lines 541-542 leaving the scores as they are
ScoreFallbackUntouched(evs) == evs

\* lines 541-542
ScoreFallback(evs) == [k \in 1..Len(evs) |-> [evs[k] EXCEPT !.importance_score = FallbackImportance]]

\* _score_importance given what prompt_llm did
ScoreWithAnswer(evs, answer) ==
    IF answer.kind = "list" THEN ApplyScores(evs, answer.items) ELSE ScoreFallback(evs)

ScoreImportance ==
    /\ pc = "score"
    /\ \/ /\ events = <<>>
          /\ UNCHANGED <<events, oracle_calls, scores, answered>>
       \/ /\ events # <<>>
          /\ \E answer \in ScoreAnswers(Len(events)) :
                /\ scores' = answer
                /\ answered' = (answered \/ answer.kind # "LLMError")
                /\ events' = ScoreWithAnswer(events, answer)
          /\ oracle_calls' = oracle_calls + 1
    /\ pc' = "assemble"
    /\ relationships' = NoAnswer
    /\ UNCHANGED <<all_events, valid_events, event_groups, timeline, raised, cursor, lvars, xvars>>

\* ----------------------------------------------------- _create_timeline
Relevant(event) == event.importance_score >= ImportanceThreshold

\* lines 550-554 without the test "if relevant_events"
RelevantEventsOnly(evs) == SelectSeq(evs, Relevant)

\* lines 550-554
RelevantEvents(evs) ==
    LET relevant_events == SelectSeq(evs, Relevant)
    IN  IF relevant_events # <<>> THEN relevant_events ELSE evs

HasAnyDate(event) == IsDate(event.date) \/ IsDate(event.estimated_date)
\* e.date alone
DateOnly(event) == event.date
\* e.date or e.estimated_date
DateOf(event) == IF IsDate(event.date) THEN event.date ELSE event.estimated_date

\* lines 567-572
DateRange(evs) ==
    LET dates == { DateOf(evs[k]) : k \in { j \in 1..Len(evs) : HasAnyDate(evs[j]) } }
    IN  IF dates = {} THEN <<None, None>>
        ELSE << CHOOSE d \in dates : \A o \in dates : d.t <= o.t,
                CHOOSE d \in dates : \A o \in dates : d.t >= o.t >>

FracAdd(a, b) == IF a.d = 0 \/ b.d = 0 THEN NaN ELSE Frac(a.n * b.d + b.n * a.d, a.d * b.d)
RECURSIVE SumFrac(_)
SumFrac(evs) == IF evs = <<>> THEN Frac(0, 1) ELSE FracAdd(Head(evs).confidence, SumFrac(Tail(evs)))

\* sum(event.confidence for event in events) / len(events)
TimelineConfidence(evs) == Frac(SumFrac(evs).n, SumFrac(evs).d * Len(evs))

\* _calculate_completeness without the multiplier of line 605
CompletenessUnscaled(evs) ==
    IF evs = <<>> THEN Frac(0, 1)
    ELSE FracMin(Frac(1, 1), Frac(Len(SelectSeq(evs, HasAnyDate)), Len(evs)))

\* _calculate_completeness: min(1.0, dated_ratio * 1.2), as a fraction of 1
Completeness(evs) ==
    IF evs = <<>> THEN Frac(0, 1)
    ELSE LET scaled == Frac(12 * Len(SelectSeq(evs, HasAnyDate)), 10 * Len(evs))
         IN  FracMin(Frac(1, 1), scaled)

\* _calculate_consistency, in tenths
Consistency(evs) ==
    IF Len(evs) < 2 THEN 10
    ELSE IF Len(SelectSeq(evs, HasAnyDate)) < 2 THEN 8
    ELSE 9

RECURSIVE SumLinks(_)
SumLinks(evs) == IF evs = <<>> THEN 0 ELSE Len(Head(evs).causal_relationships) + SumLinks(Tail(evs))

\* _create_timeline without the test "if not events" of lines 556-564
CreateTimelineUnguarded(scored) ==
    LET evs == RelevantEvents(scored)
        HasDate(e) == IsDate(e.date)
        HasEstimate(e) == IsDate(e.estimated_date)
    IN  [events |-> evs,
         date_range |-> DateRange(evs),
         confidence |-> TimelineConfidence(evs),
         completeness_score |-> Completeness(evs),
         consistency_score |-> Consistency(evs),
         metadata |-> [total_events |-> Len(evs),
                       dated_events |-> Len(SelectSeq(evs, HasDate)),
                       estimated_dates |-> Len(SelectSeq(evs, HasEstimate)),
                       causal_relationships |-> SumLinks(evs)]]

CreateTimeline(scored) ==
    LET evs == RelevantEvents(scored)
        HasDate(e) == IsDate(e.date)
        HasEstimate(e) == IsDate(e.estimated_date)
    IN  IF evs = <<>> THEN NoTimeline
        ELSE [events |-> evs,
              date_range |-> DateRange(evs),
              confidence |-> TimelineConfidence(evs),
              completeness_score |-> Completeness(evs),
              consistency_score |-> Consistency(evs),
              metadata |-> [total_events |-> Len(evs),
                            dated_events |-> Len(SelectSeq(evs, HasDate)),
                            estimated_dates |-> Len(SelectSeq(evs, HasEstimate)),
                            causal_relationships |-> SumLinks(evs)]]

\* min(dates), max(dates) compare the dates as sorted() does
Assemble ==
    /\ pc = "assemble"
    /\ LET evs == RelevantEvents(events)
           dates == { DateOf(evs[k]) : k \in { j \in 1..Len(evs) : HasAnyDate(evs[j]) } }
       IN  IF MixedKeys(dates)
           THEN /\ raised' = "TypeError"
                /\ pc' = "raised"
                /\ timeline' = timeline
           ELSE /\ raised' = raised
                /\ pc' = "done"
                /\ timeline' = CreateTimeline(events)
    /\ UNCHANGED <<all_events, valid_events, event_groups, events, oracle_calls, cursor, scores, relationships, answered, lvars, xvars>>

Next ==
    \/ Filter
    \/ Group
    \/ MergeEventGroup
    \/ EstimateDate
    \/ EstimateDone
    \/ SortChronologically
    \/ IdentifyRelationships
    \/ ScoreImportance
    \/ Assemble

\* construct_timeline, from its arguments to its return or its exception
Spec == Init /\ [][Next]_vars

\* _score_importance called once more on the events it has scored, the
\* oracle answering as it did the first time
ScoreAgain ==
    /\ pc = "assemble"
    /\ events' = IF events = <<>> THEN events ELSE ScoreWithAnswer(events, scores)
    /\ oracle_calls' = IF events = <<>> THEN oracle_calls ELSE oracle_calls + 1
    /\ pc' = "rescored"
    /\ UNCHANGED <<all_events, valid_events, event_groups, timeline, raised, cursor, scores, relationships, answered, lvars, xvars>>

NextRescore ==
    \/ Filter
    \/ Group
    \/ MergeEventGroup
    \/ EstimateDate
    \/ EstimateDone
    \/ SortChronologically
    \/ IdentifyRelationships
    \/ ScoreImportance
    \/ ScoreAgain

\* the stages up to _score_importance, and _score_importance a second time
SpecRescore == Init /\ [][NextRescore]_vars

\* ------------------------------------------- _create_timeline on its own
\* What _create_timeline may be handed: events in chronological order, each
\* dated, undated with an estimate, or undated, scored above or below the
\* importance threshold.
ScoredEventKinds ==
    { [date |-> Naive(1), estimated_date |-> None, importance_score |-> 5],
      [date |-> None, estimated_date |-> Naive(1), importance_score |-> 5],
      [date |-> None, estimated_date |-> None, importance_score |-> 5],
      [date |-> None, estimated_date |-> None, importance_score |-> 2] }

ScoredEvent(k, kind) ==
    [TimelineEvent(k, "descA", kind.date, {"x"}, {"a1"}, Frac(8, 1))
        EXCEPT !.estimated_date = kind.estimated_date,
               !.importance_score = kind.importance_score]

ChronologicalOrder(evs) ==
    \A i, j \in 1..Len(evs) : i < j => SortDate(evs[i]).t <= SortDate(evs[j]).t

InitAssemble ==
    /\ pc = "assemble"
    /\ \E n \in 0..MaxScored :
          \E kinds \in [1..n -> ScoredEventKinds] :
             /\ events = [k \in 1..n |-> ScoredEvent(k, kinds[k])]
             /\ ChronologicalOrder(events)
    /\ all_events = <<>>
    /\ valid_events = <<>>
    /\ event_groups = <<>>
    /\ timeline = NoTimeline
    /\ raised = "None"
    /\ oracle_calls = 0
    /\ cursor = 0
    /\ scores = NoAnswer
    /\ relationships = NoAnswer
    /\ answered = FALSE
    /\ LLMIdle
    /\ ExtractIdle

\* _create_timeline as a function of the scored events
SpecAssemble == InitAssemble /\ [][Assemble]_vars

\* ------------------------------------------------ the contract layer alone
TimelineIdle ==
    /\ pc = "idle"
    /\ all_events = <<>>
    /\ valid_events = <<>>
    /\ event_groups = <<>>
    /\ events = <<>>
    /\ timeline = NoTimeline
    /\ raised = "None"
    /\ oracle_calls = 0
    /\ cursor = 0
    /\ scores = NoAnswer
    /\ relationships = NoAnswer
    /\ answered = FALSE

InitLLM ==
    /\ TimelineIdle
    /\ ExtractIdle
    /\ max_retries \in 0..MaxRetries
    /\ llm_pc = "idle"
    /\ output_type = "text"
    /\ attempt = 0
    /\ llm_calls = 0
    /\ llm_result = NoResult
    /\ requests = 0
    /\ last_attempt = "none"
    /\ raw_content = <<>>

NextLLM ==
    \/ Request
    \/ Attempt

\* prompt_llm requests, one after the other, on one LLMInterface
SpecLLM == InitLLM /\ [][NextLLM]_vars

\* ------------------------------------------- _process_response alone
\* a successful call's content is not empty (line 132)
InitParse ==
    /\ TimelineIdle
    /\ ExtractIdle
    /\ max_retries = DefaultMaxRetries
    /\ llm_pc = "process"
    /\ output_type \in OutputTypes
    /\ attempt = 0
    /\ llm_calls = 1
    /\ llm_result = NoResult
    /\ requests = 1
    /\ last_attempt = "none"
    /\ raw_content \in RawContents \ { <<>> }

Process ==
    /\ llm_pc = "process"
    /\ llm_result' = ProcessResponse(raw_content, output_type)
    /\ llm_pc' = "processed"
    /\ UNCHANGED <<tvars, xvars, max_retries, output_type, attempt, llm_calls, requests, last_attempt, raw_content>>

NextParse == Process

\* _process_response applied to one non-empty raw response
SpecParse == InitParse /\ [][NextParse]_vars

\* ===================================================================
\* Information extraction (agents/information_extraction.py)
\* ===================================================================
\* config.get('extraction', 'confidence_threshold', default=0.7), in tenths
ConfidenceThreshold == 7
\* event_data.get('confidence', 0.5), in tenths
DefaultConfidence == 5
MaxArticles == 2

\* One field of an item of the oracle's array: a value of the expected
\* type, no such key, or a value of another type (description, source_text:
\* null; date_text: a number; entities, confidence: a string).
Value(s, es, n) == [kind |-> "ok", str |-> s, set |-> es, num |-> n]
Absent == [kind |-> "missing", str |-> "", set |-> {}, num |-> 0]
Malformed == [kind |-> "bad", str |-> "", set |-> {}, num |-> 0]

\* two items as the prompt asks for them
GoodItem ==
    [shape |-> "dict", description |-> Value("descA", {}, 0),
     date_text |-> Value("last year", {}, 0), entities |-> Value("", {"x"}, 0),
     confidence |-> Value("", {}, 9), source_text |-> Value("snippet", {}, 0)]
OtherItem ==
    [shape |-> "dict", description |-> Value("descB", {}, 0),
     date_text |-> Value("not specified", {}, 0), entities |-> Value("", {"y"}, 0),
     confidence |-> Value("", {}, 8), source_text |-> Value("snippet", {}, 0)]

\* GoodItem, GoodItem below the threshold, a string in place of the object,
\* GoodItem with a date phrase that names no date, and GoodItem with one
\* field absent or of another type
ItemVariants ==
    { GoodItem,
      [GoodItem EXCEPT !.confidence = Value("", {}, 6)],
      [GoodItem EXCEPT !.shape = "str"],
      [GoodItem EXCEPT !.date_text = Value("", {}, 0)],
      [GoodItem EXCEPT !.date_text = Value("Unknown", {}, 0)] }
    \cup
    { [GoodItem EXCEPT ![f] = v] :
        f \in {"description", "date_text", "entities", "confidence", "source_text"},
        v \in {Absent, Malformed} }

\* What prompt_llm hands _extract_events: LLMError, None, or a list of one
\* or two items.
EventAnswers ==
    { Raise, NoneValue, List(<<>>) }
    \cup { List(<<v>>) : v \in ItemVariants }
    \cup { List(<<v, OtherItem>>) : v \in ItemVariants }
    \cup { List(<<OtherItem, v>>) : v \in ItemVariants }

\* the answers a batch is explored with
BatchEventAnswers ==
    { Raise,
      List(<<GoodItem>>),
      List(<<OtherItem, [GoodItem EXCEPT !.confidence = Value("", {}, 6)]>>),
      List(<<OtherItem, [GoodItem EXCEPT !.description = Absent]>>) }

\* What the date request brings: LLMError, no value at all (None), or the
\* text of the reply.
DateReplies ==
    { "LLMError", "None", "", "UNABLE_TO_RESOLVE", "last year",
      "2024-01-05", "2024-01-05T00:00:00+00:00", "2024-13-45", "2024-01-05 (approx.)",
      "2024-03", "2023-2024", "2020", "2020 or 2021" }

\* lines 441-442 testing for the empty phrase only
NeedsResolutionUnlessEmpty(date_text) ==
    date_text.kind = "ok" /\ date_text.str # ""

\* lines 441-442 do not return None at once; the phrase is compared in
\* lower case
NeedsResolution(date_text) ==
    LET lower == IF date_text.str = "Unknown" THEN "unknown" ELSE date_text.str
    IN  date_text.kind = "ok" /\ lower \notin {"", "not specified", "unknown"}

\* _resolve_date_with_llm given the oracle's reply: LLMError, and the
\* TypeError of len(None) at line 490, end at line 515; a text is tried
\* against the three patterns in turn (re.match, at the start of the text),
\* and a ValueError of fromisoformat, int or datetime ends at line 508.
ResolveDateWithLLM(date_text, reply) ==
    LET full == { "2024-01-05", "2024-01-05T00:00:00+00:00", "2024-13-45",
                  "2024-01-05 (approx.)" }
        month == full \cup { "2024-03", "2023-2024" }
        year == month \cup { "2020", "2020 or 2021" }
    IN  IF ~NeedsResolution(date_text) THEN None
        ELSE IF reply \in { "LLMError", "None", "", "UNABLE_TO_RESOLVE" } THEN None
        ELSE IF reply \in full
             THEN CASE reply = "2024-01-05" -> Naive(2)
                    [] reply = "2024-01-05T00:00:00+00:00" -> Aware(2)
                    [] OTHER -> None
        ELSE IF reply \in month
             THEN IF reply = "2024-03" THEN Naive(3) ELSE None
        ELSE IF reply \in year
             THEN IF reply = "2020" THEN Naive(1) ELSE None
        ELSE None

\* the statements of the loop body that raise on the item
ItemRaises(item) ==
    \/ item.shape # "dict"                \* str has no get
    \/ item.date_text.kind = "bad"        \* line 441: int has no lower
    \/ item.description.kind = "missing"  \* line 238: KeyError
    \/ item.source_text.kind = "bad"      \* line 244: None[:200]
    \/ item.confidence.kind = "bad"       \* line 247: str >= float

\* lines 237-245
ExtractedEvent(item, reply, article_id) ==
    [description |-> item.description,
     date |-> ResolveDateWithLLM(item.date_text, reply),
     date_text |-> IF item.date_text.kind = "missing"
                   THEN Value("not specified", {}, 0) ELSE item.date_text,
     entities |-> IF item.entities.kind = "missing"
                  THEN Value("", {}, 0) ELSE item.entities,
     confidence |-> IF item.confidence.kind = "missing"
                    THEN Value("", {}, DefaultConfidence) ELSE item.confidence,
     article_id |-> article_id,
     source_text |-> IF item.source_text.kind = "missing"
                     THEN Value("", {}, 0) ELSE item.source_text]

\* _extract_events returning, on an exception, the events built so far
ExtractEventsKeepingBuilt(answer, replies, article_id) ==
    IF answer.kind # "list" THEN <<>>
    ELSE LET Confident(event) == event.confidence.num >= ConfidenceThreshold
             built == { k \in 1..Len(answer.items) :
                          \A j \in 1..k : ~ItemRaises(answer.items[j]) }
         IN  SelectSeq([k \in 1..Cardinality(built) |->
                          ExtractedEvent(answer.items[k], replies[k], article_id)],
                       Confident)

\* _extract_events given the oracle's answers
ExtractEvents(answer, replies, article_id) ==
    IF answer.kind # "list" THEN <<>>
    ELSE IF \E k \in 1..Len(answer.items) : ItemRaises(answer.items[k]) THEN <<>>
    ELSE LET Confident(event) == event.confidence.num >= ConfidenceThreshold
         IN  SelectSeq([k \in 1..Len(answer.items) |->
                          ExtractedEvent(answer.items[k], replies[k], article_id)],
                       Confident)

\* the items _extract_events reaches: up to the first that raises
Reached(answer) ==
    IF answer.kind # "list" THEN {}
    ELSE { k \in 1..Len(answer.items) :
             \A j \in 1..(k - 1) : ~ItemRaises(answer.items[j]) }

\* the date requests _extract_events issues
DateRequests(answer) ==
    { k \in Reached(answer) :
        answer.items[k].shape = "dict" /\ NeedsResolution(answer.items[k].date_text) }

\* What prompt_llm hands _extract_entities, and what that returns.
EntityAnswers == { Raise, List(<<"ent">>) }
ExtractEntities(answer) == IF answer.kind = "list" THEN answer.items ELSE <<>>

\* _event_to_dict (the date stands for its isoformat string)
EventToDict(event) ==
    [description |-> event.description, date |-> event.date,
     date_text |-> event.date_text, entities |-> event.entities,
     confidence |-> event.confidence, source_text |-> event.source_text]

\* extract_from_article: _extract_temporal_references raises OverflowError
\* on the ancient article, after both requests were made
ExtractFromArticle(article, answer, replies, entity_answer) ==
    IF article.ancient
    THEN [kind |-> "OverflowError", result |-> NoExtraction]
    ELSE LET evs == ExtractEvents(answer, replies, article.file_path)
         IN  [kind |-> "return",
              result |-> [article_id |-> article.file_path,
                          events |-> [k \in 1..Len(evs) |-> EventToDict(evs[k])],
                          entities |-> ExtractEntities(entity_answer),
                          temporal_references |-> <<>>]]

\* what went wrong while the article was processed
Failures(article, answer, replies, entity_answer) ==
    (IF answer.kind # "list" THEN {"events"} ELSE {})
    \cup (IF answer.kind = "list" /\ \E k \in 1..Len(answer.items) : ItemRaises(answer.items[k])
          THEN {"item"} ELSE {})
    \cup (IF \E k \in DateRequests(answer) : replies[k] = "LLMError" THEN {"date"} ELSE {})
    \cup (IF entity_answer.kind # "list" THEN {"entities"} ELSE {})
    \cup (IF article.ancient THEN {"exception"} ELSE {})

\* the items of the answer that meet the confidence threshold
Passing(answer) ==
    IF answer.kind # "list" THEN 0
    ELSE Cardinality({ k \in 1..Len(answer.items) :
            /\ answer.items[k].shape = "dict"
            /\ \/ answer.items[k].confidence.kind = "ok"
                  /\ answer.items[k].confidence.num >= ConfidenceThreshold
               \/ answer.items[k].confidence.kind # "ok"
                  /\ DefaultConfidence >= ConfidenceThreshold })

\* an extraction stored by an earlier run
CachedExtraction(article) ==
    [article_id |-> article.file_path,
     events |-> <<EventToDict(ExtractedEvent(OtherItem, "LLMError", article.file_path))>>,
     entities |-> <<>>,
     temporal_references |-> <<>>]

\* get_extraction_metadata: the stored extraction, None when there is none
\* or when the retrieval failed
GetExtractionMetadata(article_id, retrieved) ==
    IF retrieved THEN store[article_id] ELSE NoExtraction

\* line 156 taking every lookup for a miss
NeverCached(data) == FALSE

\* line 156
UseCached(data) == data # NoExtraction

\* extract_from_articles_with_cache is entered with up to MaxArticles
\* different articles; without a search engine it hands over to
\* extract_from_articles, which extracts every article
InitExtract ==
    /\ TimelineIdle
    /\ LLMIdle
    /\ articles \in { s \in SeqsUpTo(ArticlePool, MaxArticles) :
                        \A i, j \in 1..Len(s) : i # j => s[i] # s[j] }
    /\ search_engine \in BOOLEAN
    /\ \E stored \in SUBSET ArticlePool :
          /\ ~search_engine => stored = {}
          /\ store = [id \in { ArticleId(a) : a \in ArticlePool } |->
                        LET a == CHOOSE a \in ArticlePool : ArticleId(a) = id
                        IN  IF a \in stored THEN CachedExtraction(a) ELSE NoExtraction]
    /\ x_pc = IF search_engine THEN "lookup" ELSE "extract"
    /\ to_process = IF search_engine THEN <<>> ELSE [p \in 1..Len(articles) |-> p]
    /\ cached_data = <<>>
    /\ position = 0
    /\ results = <<>>
    /\ origin = <<>>
    /\ handled = [p \in 1..Len(articles) |-> NotHandled]
    /\ updates = <<>>
    /\ previous = <<>>
    /\ events_data = NoAnswer
    /\ date_replies = <<>>
    /\ extracted = <<>>

\* lines 150-164 for one article
Lookup ==
    /\ x_pc = "lookup"
    /\ position < Len(articles)
    /\ \E retrieved \in BOOLEAN :
          LET p == position + 1
              data == GetExtractionMetadata(ArticleId(articles[p]), retrieved)
          IN  /\ cached_data' = Append(cached_data, data)
              /\ IF UseCached(data)
                 THEN /\ results' = Append(results, data)
                      /\ origin' = Append(origin, p)
                      /\ to_process' = to_process
                 ELSE /\ to_process' = Append(to_process, p)
                      /\ UNCHANGED <<results, origin>>
    /\ position' = position + 1
    /\ UNCHANGED <<tvars, lvars, x_pc, articles, search_engine, store, handled, updates,
                   previous, events_data, date_replies, extracted>>

\* the first loop is through
EndLookup ==
    /\ x_pc = "lookup"
    /\ position = Len(articles)
    /\ x_pc' = "extract"
    /\ position' = 0
    /\ UNCHANGED <<tvars, lvars, articles, search_engine, store, cached_data, to_process,
                   results, origin, handled, updates, previous, events_data, date_replies, extracted>>

\* lines 119-126, and lines 169-180 with the search engine, for one article;
\* every date request of the article fails, or every one brings a date
ExtractNext ==
    /\ x_pc = "extract"
    /\ position < Len(to_process)
    /\ \E answer \in BatchEventAnswers, reply \in {"LLMError", "2024-01-05"},
          entity_answer \in EntityAnswers, stored \in BOOLEAN :
          LET p == to_process[position + 1]
              article == articles[p]
              replies == [k \in 1..2 |-> reply]
              call == ExtractFromArticle(article, answer, replies, entity_answer)
          IN  /\ handled' = [handled EXCEPT ![p] =
                    [requests |-> 2 + Cardinality(DateRequests(answer)),
                     failed |-> Failures(article, answer, replies, entity_answer),
                     passing |-> Passing(answer)]]
              /\ IF call.kind = "return"
                 THEN /\ results' = Append(results, call.result)
                      /\ origin' = Append(origin, p)
                      /\ IF search_engine
                         THEN /\ updates' = Append(updates,
                                    [article_id |-> ArticleId(article),
                                     extraction_result |-> call.result])
                              /\ store' = IF stored
                                          THEN [store EXCEPT ![ArticleId(article)] = call.result]
                                          ELSE store
                         ELSE UNCHANGED <<updates, store>>
                 ELSE UNCHANGED <<results, origin, updates, store>>
    /\ position' = position + 1
    /\ UNCHANGED <<tvars, lvars, x_pc, articles, search_engine, cached_data, to_process,
                   previous, events_data, date_replies, extracted>>

\* return results
Return ==
    /\ x_pc = "extract"
    /\ position = Len(to_process)
    /\ x_pc' = "returned"
    /\ UNCHANGED <<tvars, lvars, articles, search_engine, store, cached_data, to_process,
                   position, results, origin, handled, updates, previous, events_data, date_replies,
                   extracted>>

NextExtract == Lookup \/ EndLookup \/ ExtractNext \/ Return

\* one call of extract_from_articles_with_cache
SpecExtract == InitExtract /\ [][NextExtract]_vars

\* ------------------------------------- the same batch, called once more
\* extract_from_articles_with_cache is called again with the articles and
\* the search engine of the call that has returned; what the search engine
\* stores is all that is left of that call
RunAgain ==
    /\ x_pc = "returned"
    /\ search_engine
    /\ previous = <<>>
    /\ articles # <<>>
    /\ previous' = handled
    /\ handled' = [p \in 1..Len(articles) |-> NotHandled]
    /\ x_pc' = "lookup"
    /\ position' = 0
    /\ cached_data' = <<>>
    /\ to_process' = <<>>
    /\ results' = <<>>
    /\ origin' = <<>>
    /\ updates' = <<>>
    /\ UNCHANGED <<tvars, lvars, articles, search_engine, store, events_data, date_replies,
                   extracted>>

NextRerun == Lookup \/ EndLookup \/ ExtractNext \/ Return \/ RunAgain

\* two calls of extract_from_articles_with_cache for one article, one
\* after the other, with one search engine
InitRerun ==
    /\ InitExtract
    /\ search_engine
    /\ Len(articles) = 1

SpecRerun == InitRerun /\ [][NextRerun]_vars

\* _extract_events is entered with what the oracle will answer
InitEvents ==
    /\ TimelineIdle
    /\ LLMIdle
    /\ x_pc = "extract_events"
    /\ articles = <<>>
    /\ search_engine = FALSE
    /\ store = [id \in { ArticleId(a) : a \in ArticlePool } |-> NoExtraction]
    /\ cached_data = <<>>
    /\ to_process = <<>>
    /\ position = 0
    /\ results = <<>>
    /\ origin = <<>>
    /\ handled = <<>>
    /\ updates = <<>>
    /\ previous = <<>>
    /\ events_data \in EventAnswers
    /\ date_replies \in [1..2 -> DateReplies]
    /\ extracted = <<>>

ExtractEventsCall ==
    /\ x_pc = "extract_events"
    /\ extracted' = ExtractEvents(events_data, date_replies, "a1")
    /\ handled' = <<[requests |-> 1 + Cardinality(DateRequests(events_data)),
                     failed |-> {}, passing |-> Passing(events_data)]>>
    /\ x_pc' = "events_done"
    /\ UNCHANGED <<tvars, lvars, articles, search_engine, store, cached_data, to_process,
                   position, results, origin, updates, previous, events_data, date_replies>>

NextEvents == ExtractEventsCall

\* _extract_events applied to one answer of the oracle
SpecEvents == InitEvents /\ [][NextEvents]_vars



\* ===================================================================
\* The claims
\* ===================================================================

\* the members of the group a TimelineEvent was merged from
GroupOf(event) == Members(event_groups[event.oid])

\* -------------------------------------------------------------- C1
\* C1: construct_timeline never raises: whatever the events' dates and
\* whatever the oracle does on each request, no stage lets an exception
\* escape.  The code breaks it: _sort_chronologically compares an
\* offset-aware date with a naive one (TypeError).
ConstructTimelineNeverRaises == pc # "raised" /\ raised = "None"

\* -------------------------------------------------------------- C2
\* the places position k of valid_events takes in the groups
Places(groups, k) ==
    UNION { { <<g, j>> : j \in { i \in 1..Len(groups[g]) : groups[g][i] = k } }
            : g \in 1..Len(groups) }

\* C2: for n >= 2 events and every grouping answer, the groups
\* _group_similar_events returns are a partition: every event is in exactly
\* one group exactly once, and no group is empty.  The code breaks it: an
\* index the oracle repeats is taken every time.
GroupsAreAPartition ==
    (pc \notin {"filter", "group"} /\ Len(valid_events) >= 2) =>
        /\ \A g \in 1..Len(event_groups) : event_groups[g] # <<>>
        /\ \A k \in 1..Len(valid_events) : Cardinality(Places(event_groups, k)) = 1

\* -------------------------------------------------------------- C3
AnyRelevant == \E k \in 1..Len(events) : events[k].importance_score >= ImportanceThreshold

AllScoresZero ==
    /\ timeline.confidence = Frac(0, 1)
    /\ timeline.completeness_score = Frac(0, 1)
    /\ timeline.consistency_score = 0

\* C3 as stated: every event of the returned Timeline has importance_score
\* >= 0.3, and when no event reaches 0.3 the Timeline has no events and
\* confidence, completeness_score and consistency_score 0.
BelowCutoffAlwaysDropped ==
    pc = "done" =>
        /\ \A k \in 1..Len(timeline.events) :
              timeline.events[k].importance_score >= ImportanceThreshold
        /\ ~AnyRelevant => (timeline.events = <<>> /\ AllScoresZero)

\* C3, amended: when some event reaches 0.3, the returned Timeline holds
\* exactly the events that do, in their order; when none does, nothing is
\* dropped and the Timeline holds every event; the Timeline is empty, with
\* the three scores 0, exactly when there was no event to assemble.
CutoffAppliesWhenSomeEventPasses ==
    pc = "done" =>
        /\ AnyRelevant =>
              /\ \A k \in 1..Len(timeline.events) :
                    timeline.events[k].importance_score >= ImportanceThreshold
              /\ \A k \in 1..Len(events) :
                    events[k].importance_score >= ImportanceThreshold
                        => \E j \in 1..Len(timeline.events) : timeline.events[j] = events[k]
              /\ \A i, j \in 1..Len(timeline.events) :
                    i < j => \E a, b \in 1..Len(events) :
                                a < b /\ events[a] = timeline.events[i] /\ events[b] = timeline.events[j]
        /\ ~AnyRelevant => timeline.events = events
        /\ timeline.events = <<>> <=> events = <<>>
        /\ events = <<>> => AllScoresZero

\* C3's case: events were scored, none reached 0.3, and all were returned
AllBelowCutoffKept ==
    /\ pc = "done"
    /\ Len(events) >= 2
    /\ ~AnyRelevant
    /\ Len(timeline.events) = Len(events)
    /\ timeline.confidence # Frac(0, 1)

\* -------------------------------------------------------------- C4
\* the scoring answer has a usable entry for the event at position k
Supplied(k) ==
    /\ scores.kind = "list"
    /\ \E j \in 1..Len(scores.items) :
          /\ scores.items[j].kind = "ok"
          /\ scores.items[j].event_id = k - 1
          /\ 0 <= scores.items[j].importance_score
          /\ scores.items[j].importance_score <= 10

\* C4: after _score_importance, every event the answer supplied no usable
\* entry for has importance_score 0.5, on a partially usable or empty answer
\* as on a failed request.  The code breaks it: such an event keeps 0.0
\* unless the request failed.
UnscoredEventsGetDefault ==
    (pc \in {"assemble", "done"} /\ events # <<>>) =>
        \A k \in 1..Len(events) :
            ~Supplied(k) => events[k].importance_score = FallbackImportance

\* -------------------------------------------------------------- C5
\* C5: one request makes at most max_retries oracle calls; it goes on only
\* after a failed call; it returns as soon as a call succeeds, with that
\* call's processed content, having made no call after it; it raises
\* LLMError when the last permitted call has failed; and every request
\* counts from zero, whatever the requests before it did.
RetriesBoundedAndLocal ==
    /\ llm_calls <= max_retries
    /\ llm_pc = "loop" =>
          /\ llm_calls = attempt
          /\ attempt < max_retries
          /\ last_attempt # "ok"
          /\ llm_result = NoResult
    /\ (llm_pc = "returned" /\ llm_calls > 0) =>
          /\ last_attempt = "ok"
          /\ llm_calls = attempt + 1
          /\ raw_content # <<>>
          /\ llm_result = ProcessResponse(raw_content, output_type)
          /\ llm_result.kind = "return"
    /\ llm_pc = "raised" =>
          /\ last_attempt = "failed"
          /\ llm_calls = max_retries
          /\ llm_result = Raised("LLMError")

\* C5's case: the second request on one interface fails twice and then
\* succeeds on its third and last call
SecondRequestSucceedsOnLastCall ==
    /\ requests = 2
    /\ max_retries = 3
    /\ llm_pc = "returned"
    /\ llm_calls = 3
    /\ llm_result.kind = "return"

\* -------------------------------------------------------------- C6
\* the type the request asks for
Wanted == IF output_type = "json_array" THEN "list" ELSE "dict"

\* the whole text, thinking blocks stripped, is valid JSON of another shape
OtherShape ==
    LET whole == JsonLoads(StripThinkingBlocks(raw_content))
    IN  whole.ok /\ whole.val.type # Wanted

MergedConfidenceAtMostMean ==
    \A k \in 1..Len(events) :
        FracLe(events[k].confidence,
               Frac(SumConf(GroupOf(events[k])), Len(GroupOf(events[k]))))

\* -------------------------------------------------------------- C8
\* nothing to order the event by
Neither(event) == ~IsDate(event.date) /\ ~IsDate(event.estimated_date)

\* C8: in the returned Timeline the events ascend by date, else
\* estimated_date; an event with neither comes after every event with one;
\* events with equal keys, and the events with neither, keep the order the
\* merge stage gave them (oid).  The code breaks it: an event dated
\* datetime.max ties with the events that have neither.
ChronologicalUndatedLast ==
    pc = "done" =>
        \A i, j \in 1..Len(timeline.events) :
            i < j =>
                LET a == timeline.events[i]
                    b == timeline.events[j]
                IN  /\ ~(Neither(a) /\ ~Neither(b))
                    /\ (~Neither(a) /\ ~Neither(b)) => DateOf(a).t <= DateOf(b).t
                    /\ (~Neither(a) /\ ~Neither(b) /\ DateOf(a).t = DateOf(b).t) => a.oid < b.oid
                    /\ (Neither(a) /\ Neither(b)) => a.oid < b.oid

\* -------------------------------------------------------------- C9
\* C9: every TimelineEvent has sources, and they are exactly the article
\* ids of its group's members, on every merge path; every group yields
\* exactly one TimelineEvent.
SourcesAreTheMembersArticles ==
    /\ \A k \in 1..Len(events) :
          /\ events[k].sources # {}
          /\ events[k].sources =
                { valid_events[event_groups[events[k].oid][j]].article_id
                    : j \in 1..Len(event_groups[events[k].oid]) }
    /\ Len(events) <= Len(event_groups)
    /\ pc \in {"estimate", "sort", "link", "score", "assemble", "done", "raised"}
          => Len(events) = Len(event_groups)
    /\ \A i, j \in 1..Len(events) : i # j => events[i].oid # events[j].oid

\* C9's case: two events from two articles merged into one TimelineEvent
TwoArticlesOneEvent ==
    /\ pc = "done"
    /\ Len(valid_events) = 2
    /\ Len(events) = 1
    /\ events[1].sources = {"a1", "a2"}

\* ------------------------------------------------------------- C10
\* C10: on every merge path the TimelineEvent's entities are the union of
\* its group's members' entities.  The code breaks it: a successful merge
\* takes the oracle's all_entities instead.
EntitiesAreTheMembersUnion ==
    \A k \in 1..Len(events) :
        events[k].entities =
            UNION { valid_events[event_groups[events[k].oid][j]].entities
                      : j \in 1..Len(event_groups[events[k].oid]) }


\* ------------------------------------------------------------- C11
\* the event came out of the oracle's merge answer
MergedByOracle(event) == event.description = "descM"

\* d is the date of the first dated member, None when no member is dated
FirstNonNullDate(members, d) ==
    \/ /\ \A i \in 1..Len(members) : ~IsDate(members[i].date)
       /\ d = None
    \/ \E i \in 1..Len(members) :
          /\ IsDate(members[i].date)
          /\ \A j \in 1..(i - 1) : ~IsDate(members[j].date)
          /\ d = members[i].date

\* C11 as stated: for a group of several members, on every merge path, the
\* TimelineEvent's date is the first non-null date among the members.
MergedDateIsFirstNonNull ==
    \A k \in 1..Len(events) :
        Len(GroupOf(events[k])) >= 2 =>
            FirstNonNullDate(GroupOf(events[k]), events[k].date)

\* C11, amended: a merge through the oracle's answer gives the first
\* non-null date among the members (None only when none is dated); the
\* fallback gives the first member's date, dated or not.
MergedDateFirstNonNullOrPrimary ==
    \A k \in 1..Len(events) :
        Len(GroupOf(events[k])) >= 2 =>
            IF MergedByOracle(events[k])
            THEN FirstNonNullDate(GroupOf(events[k]), events[k].date)
            ELSE events[k].date = GroupOf(events[k])[1].date

\* C11's case: the oracle merged an undated member and, after it, a dated one
OracleMergeSkipsUndatedMember ==
    \E k \in 1..Len(events) :
        /\ MergedByOracle(events[k])
        /\ Len(GroupOf(events[k])) >= 2
        /\ ~IsDate(GroupOf(events[k])[1].date)
        /\ IsDate(GroupOf(events[k])[2].date)
        /\ events[k].date = GroupOf(events[k])[2].date

\* ------------------------------------------------------------- C12
\* C12: the metadata counts of the returned Timeline are taken over the
\* events as they were before the importance filter.  The code breaks it:
\* it counts the events that are left.
MetadataCountsBeforeFilter ==
    pc = "done" =>
        /\ timeline.metadata.total_events = Len(events)
        /\ timeline.metadata.dated_events =
              Cardinality({ k \in 1..Len(events) : IsDate(events[k].date) })
        /\ timeline.metadata.estimated_dates =
              Cardinality({ k \in 1..Len(events) : IsDate(events[k].estimated_date) })
        /\ timeline.metadata.causal_relationships = SumLinks(events)

\* ------------------------------------------------------------- C13
\* the results that came out of the second loop, by position in results
Hits == Len(results) - Len(updates)

\* C13: with a search engine, an article whose lookup returned a cached
\* extraction is not put up for extraction, no oracle request is issued for
\* it, and what the lookup returned (the stored payload) is in the results
\* as it is; an article without one is extracted, and every result of an
\* extraction is at once handed to update_extraction_metadata, under the
\* article's uuid, exactly as it was appended to the results (an
\* extraction that raised returns no result and is not stored).
CacheHitSkipsExtraction ==
    search_engine =>
        /\ \A p \in 1..Len(cached_data) :
              /\ x_pc = "lookup" =>
                    cached_data[p] \in { store[ArticleId(articles[p])], NoExtraction }
              /\ cached_data[p] # NoExtraction =>
                    /\ handled[p].requests = 0
                    /\ \A i \in 1..Len(to_process) : to_process[i] # p
                    /\ \E k \in 1..Len(results) :
                          origin[k] = p /\ results[k] = cached_data[p]
              /\ cached_data[p] = NoExtraction =>
                    /\ \E i \in 1..Len(to_process) : to_process[i] = p
                    /\ (x_pc = "returned" \/ (x_pc = "extract" /\ \E i \in 1..position : to_process[i] = p))
                          => handled[p].requests >= 1
        /\ Hits >= 0
        /\ \A j \in 1..Len(updates) :
              /\ updates[j].extraction_result = results[Hits + j]
              /\ updates[j].article_id = ArticleId(articles[origin[Hits + j]])
              /\ cached_data[origin[Hits + j]] = NoExtraction
        /\ \A k \in 1..Len(results) :
              k <= Hits => cached_data[origin[k]] = results[k]
        /\ x_pc = "returned" =>
              Len(updates) = Cardinality({ p \in 1..Len(articles) :
                                cached_data[p] = NoExtraction /\ "exception" \notin handled[p].failed })

\* C13's case: one article served from the cache, the next one extracted
\* and its result stored
HitThenMissStored ==
    /\ x_pc = "returned"
    /\ search_engine
    /\ Len(articles) = 2
    /\ cached_data[1] # NoExtraction
    /\ cached_data[2] = NoExtraction
    /\ handled[1].requests = 0
    /\ Len(results) = 2
    /\ results[1] = cached_data[1]
    /\ results[2].events # <<>>
    /\ Len(updates) = 1
    /\ store[ArticleId(articles[2])] = results[2]

\* ------------------------------------------------------------- C14
\* the articles whose extraction returned, in the order of to_process
Survivors ==
    LET Returned14(p) == "exception" \notin handled[p].failed
    IN  SelectSeq(to_process, Returned14)

\* the batch went through: every article put up for extraction was
\* processed, and the results of the second loop are those of the articles
\* whose extraction returned, in their order
BatchWentThrough ==
    /\ position = Len(to_process)
    /\ \A i \in 1..Len(to_process) : handled[to_process[i]].requests >= 1
    /\ Len(results) - Len(Survivors) >= 0
    /\ \A j \in 1..Len(Survivors) :
          LET k == Len(results) - Len(Survivors) + j
          IN  /\ origin[k] = Survivors[j]
              /\ results[k].article_id = articles[Survivors[j]].file_path

\* C14 as stated: a failing request or an exception for one article never
\* aborts the batch, every other article is processed and its result
\* returned, and an article something failed for contributes no events.
FailingArticleContributesNoEvents ==
    x_pc = "returned" =>
        /\ BatchWentThrough
        /\ \A k \in 1..Len(results) :
              handled[origin[k]].failed # {} => results[k].events = <<>>

\* C14, amended: the batch always goes through; an article whose
\* extraction raised contributes no result at all; an article whose event
\* request failed, or whose answer held an item that could not be
\* processed, contributes a result without events; a failed entity request
\* leaves the result without entities; and when neither the event request
\* nor an item failed, the result holds every item that meets the
\* confidence threshold, whatever became of the date and entity requests.
FailureLosesOnlyWhatFailed ==
    x_pc = "returned" =>
        /\ BatchWentThrough
        /\ \A k \in 1..Len(results) :
              handled[origin[k]].requests >= 1 =>
                  LET done == handled[origin[k]]
                  IN  /\ "exception" \notin done.failed
                      /\ done.failed \cap {"events", "item"} # {} => results[k].events = <<>>
                      /\ done.failed \cap {"events", "item"} = {} =>
                            Len(results[k].events) = done.passing
                      /\ "entities" \in done.failed => results[k].entities = <<>>

\* C14's case: the first article's extraction raised; the second, whose
\* date and entity requests failed, was still processed and kept its event
SecondArticleSurvivesFirst ==
    /\ x_pc = "returned"
    /\ Len(articles) = 2
    /\ "exception" \in handled[1].failed
    /\ handled[2].failed = {"date", "entities"}
    /\ Len(results) = 1
    /\ origin[1] = 2
    /\ Len(results[1].events) = 1
    /\ results[1].events[1].date = None

\* ------------------------------------------------------------- C15
\* a field as C15 has it: its value when it is there and well-formed, the
\* default otherwise
OrDefault(field, default) == IF field.kind = "ok" THEN field ELSE default

\* the items of the answer that meet the threshold once defaults are in
Kept ==
    { k \in 1..Len(events_data.items) :
        OrDefault(events_data.items[k].confidence,
                  Value("", {}, DefaultConfidence)).num >= ConfidenceThreshold }

\* C15: when the answer is an array of objects, _extract_events returns one
\* event for every item that meets the confidence threshold, in order,
\* whatever is missing or malformed in any item; a field that is missing or
\* malformed has its default (description, source_text: empty string;
\* date_text: empty string or 'not specified'; entities: empty list;
\* confidence: 0.5).  The code breaks it: an item without description, or
\* with a malformed date_text, confidence or source_text, makes
\* _extract_events return no event at all, and a malformed description or
\* entities value is passed on as it is.
MalformedFieldsGetDefaults ==
    ( /\ x_pc = "events_done"
      /\ events_data.kind = "list"
      /\ \A k \in 1..Len(events_data.items) : events_data.items[k].shape = "dict" )
    =>
        /\ Len(extracted) = Cardinality(Kept)
        /\ \A k \in Kept :
              LET j == Cardinality({ i \in Kept : i <= k })
                  item == events_data.items[k]
              IN  j <= Len(extracted) =>
                    /\ extracted[j].description = OrDefault(item.description, Value("", {}, 0))
                    /\ extracted[j].entities = OrDefault(item.entities, Value("", {}, 0))
                    /\ extracted[j].confidence =
                          OrDefault(item.confidence, Value("", {}, DefaultConfidence))
                    /\ extracted[j].source_text = OrDefault(item.source_text, Value("", {}, 0))
                    /\ \/ extracted[j].date_text = item.date_text
                       \/ /\ item.date_text.kind # "ok"
                          /\ extracted[j].date_text \in
                                { Value("", {}, 0), Value("not specified", {}, 0) }

\* ------------------------------------------------------------- C16
\* C16: with no raw event at all, construct_timeline returns a Timeline
\* with no events, confidence 0.0 and date_range (None, None), and no
\* oracle request is issued on the way.
EmptyInputEmptyTimeline ==
    all_events = <<>> =>
        /\ oracle_calls = 0
        /\ pc # "raised"
        /\ pc = "done" =>
              /\ timeline.events = <<>>
              /\ timeline.confidence = Frac(0, 1)
              /\ timeline.date_range = <<None, None>>

\* C16's case: the call on no events has returned
EmptyInputReturned ==
    /\ all_events = <<>>
    /\ pc = "done"
    /\ timeline.events = <<>>

\* ------------------------------------------------------------- C17
\* the groups of several members merged so far
MergedGroups == { k \in 1..Len(events) : Len(event_groups[events[k].oid]) > 1 }

\* C17: a group of one is copied: description, entities, confidence and
\* date are the RawEvent's and sources is its article_id alone; and no
\* oracle request is issued for it (the requests made up to the end of
\* the merge loop are the grouping request and one per larger group).
SingletonIsCopied ==
    /\ \A k \in 1..Len(events) :
          Len(event_groups[events[k].oid]) = 1 =>
              LET raw == valid_events[event_groups[events[k].oid][1]]
              IN  /\ events[k].description = raw.description
                  /\ events[k].entities = raw.entities
                  /\ events[k].confidence = Frac(raw.confidence, 1)
                  /\ events[k].date = raw.date
                  /\ events[k].sources = { raw.article_id }
    /\ (pc = "merge" \/ (pc = "estimate" /\ cursor = 0)) =>
          oracle_calls = (IF Len(valid_events) >= 2 THEN 1 ELSE 0) + Cardinality(MergedGroups)

\* C17's case: a singleton was copied next to a group the oracle merged
SingletonBesideMergedGroup ==
    /\ pc = "estimate"
    /\ cursor = 0
    /\ Len(events) = 2
    /\ Len(event_groups[1]) = 2
    /\ Len(event_groups[2]) = 1
    /\ events[2].entities # {}
    /\ oracle_calls = 2


\* ------------------------------------------------------------- C18
\* C18: a step of _estimate_dates changes no event's date, changes nothing
\* of an event that has a date, and changes nothing but estimated_date of
\* the others; when no event has a date it changes no event and issues no
\* oracle request.
EstimateWritesOnlyEstimatedDate ==
    [][pc = "estimate" =>
          /\ Len(events') = Len(events)
          /\ \A k \in 1..Len(events) :
                /\ events'[k].date = events[k].date
                /\ IsDate(events[k].date) => events'[k] = events[k]
                /\ events'[k] = [events[k] EXCEPT !.estimated_date = events'[k].estimated_date]
          /\ (\A k \in 1..Len(events) : ~IsDate(events[k].date)) =>
                (events' = events /\ oracle_calls' = oracle_calls)
      ]_vars

\* C18's case: an undated event got an estimate beside a dated event
UndatedEventEstimated ==
    /\ pc = "sort"
    /\ \E k \in 1..Len(events) :
          ~IsDate(events[k].date) /\ IsDate(events[k].estimated_date)
    /\ \E k \in 1..Len(events) :
          IsDate(events[k].date) /\ ~IsDate(events[k].estimated_date)

\* ------------------------------------------------------------- C19
\* line 479 holds for the element
Accepted(rel, n) ==
    /\ rel.kind = "ok"
    /\ 0 <= rel.cause_event_id /\ rel.cause_event_id < n
    /\ 0 <= rel.effect_event_id /\ rel.effect_event_id < n

\* the ids the answer's accepted links add to the event at position k
AddedLinks(k, answer, evs) ==
    LET items == IF answer.kind = "list" THEN answer.items ELSE <<>>
        Mine(rel) == Accepted(rel, Len(evs)) /\ rel.cause_event_id = k - 1
        mine == SelectSeq(items, Mine)
    IN  [j \in 1..Len(mine) |-> evs[mine[j].effect_event_id + 1].id]

\* C19: _identify_relationships leaves the list's order and every field
\* but causal_relationships alone; each accepted link appends the id of
\* events[effect] to events[cause] and to no other event; a link with an
\* index outside 0..len(events)-1 and a failed request add nothing.
OnlyAcceptedLinksAreAdded ==
    [][pc = "link" =>
          /\ Len(events') = Len(events)
          /\ \A k \in 1..Len(events) :
                events'[k] = [events[k] EXCEPT !.causal_relationships =
                                 @ \o AddedLinks(k, relationships', events)]
      ]_vars

\* C19's case: the last of three events is named as the cause of the first,
\* and the link is on the cause alone
LinkAddedToCauseOnly ==
    /\ pc = "score"
    /\ Len(events) = 3
    /\ relationships = List(<<Rel(2, 0)>>)
    /\ events[3].causal_relationships = <<events[1].id>>
    /\ events[1].causal_relationships = <<>>
    /\ events[2].causal_relationships = <<>>

\* ------------------------------------------------------------- C20
\* the positions of the timeline's events that have a date or an estimate
Having == { k \in 1..Len(timeline.events) :
              IsDate(timeline.events[k].date) \/ IsDate(timeline.events[k].estimated_date) }

\* date if present, else estimated_date
KeyOf(k) ==
    IF IsDate(timeline.events[k].date) THEN timeline.events[k].date
    ELSE timeline.events[k].estimated_date

\* C20: the date_range of a non-empty returned Timeline is the least and
\* the greatest of (date, else estimated_date) over its events that have
\* either, and (None, None) when none has.
DateRangeIsMinMax ==
    (pc = "done" /\ timeline.events # <<>>) =>
        IF Having = {} THEN timeline.date_range = <<None, None>>
        ELSE /\ \E k \in Having : timeline.date_range[1] = KeyOf(k)
             /\ \A k \in Having : timeline.date_range[1].t <= KeyOf(k).t
             /\ \E k \in Having : timeline.date_range[2] = KeyOf(k)
             /\ \A k \in Having : timeline.date_range[2].t >= KeyOf(k).t

\* C20's case: the range starts at an estimate and ends at a date
RangeFromEstimateToDate ==
    /\ pc = "done"
    /\ \E k \in Having :
          /\ ~IsDate(timeline.events[k].date)
          /\ timeline.date_range[1] = timeline.events[k].estimated_date
    /\ \E k \in Having :
          /\ IsDate(timeline.events[k].date)
          /\ timeline.date_range[2] = timeline.events[k].date
    /\ timeline.date_range[1].t < timeline.date_range[2].t


\* ------------------------------------------------------------- C21
\* the replies that are an ISO date: a day, a day with time and offset, a
\* month, a year
IsoDateReplies == { "2024-01-05", "2024-01-05T00:00:00+00:00", "2024-03", "2020" }

\* the item names no date: no phrase, an empty one, 'not specified', 'unknown'
NamesNoDate(item) ==
    \/ item.date_text.kind = "missing"
    \/ item.date_text.kind = "ok"
       /\ item.date_text.str \in {"", "not specified", "unknown", "Unknown"}

\* C21: an event's resolved date is None whenever the reply to its date
\* request is a failure, no value, UNABLE_TO_RESOLVE or a text that is no
\* ISO date, and whenever its phrase is empty, 'not specified' or
\* 'unknown'; for such a phrase no request is issued (the requests of
\* _extract_events are the event request and one for every other phrase).
UnresolvedDateIsNone ==
    ( /\ x_pc = "events_done"
      /\ events_data.kind = "list"
      /\ Len(extracted) = Len(events_data.items) )
    =>
        /\ \A k \in 1..Len(extracted) :
              /\ date_replies[k] \notin IsoDateReplies => extracted[k].date = None
              /\ NamesNoDate(events_data.items[k]) => extracted[k].date = None
        /\ handled[1].requests =
              1 + Cardinality({ k \in 1..Len(extracted) : ~NamesNoDate(events_data.items[k]) })

\* C21's case: the oracle could not resolve 'last year', and the second
\* event's phrase, 'not specified', was not sent although a date was on offer
UnableToResolveLeftUndated ==
    /\ x_pc = "events_done"
    /\ events_data = List(<<GoodItem, OtherItem>>)
    /\ date_replies = <<"UNABLE_TO_RESOLVE", "2024-01-05">>
    /\ Len(extracted) = 2
    /\ extracted[1].date = None
    /\ extracted[2].date = None
    /\ handled[1].requests = 2


\* ------------------------------------------------------------- C22
\* C22: a second run of _score_importance on the events it has scored,
\* with the oracle's answer of the first run, changes no event: every
\* importance_score is what the first run left.
RescoringChangesNothing ==
    [][(pc = "assemble" /\ pc' = "rescored") =>
          /\ Len(events') = Len(events)
          /\ \A k \in 1..Len(events) :
                events'[k].importance_score = events[k].importance_score
      ]_vars

\* C22's case: the answer scored the first event twice and left the others
\* alone, and was applied a second time
RescoredWithPartialAnswer ==
    /\ pc = "rescored"
    /\ scores = List(<<Score(0, 9), Score(0, 2)>>)
    /\ Len(events) >= 2
    /\ events[1].importance_score = 2
    /\ events[2].importance_score = DefaultImportance


\* ------------------------------------------------------------- C23
\* what a raw event becomes when no request succeeds: the event of its
\* own group, undated unless it has a date, unlinked, scored 0.5
Untouched(k) ==
    [MergeSingleton(k, valid_events[k]) EXCEPT !.importance_score = FallbackImportance]

\* C23: when every request of a construct_timeline call raised LLMError,
\* the returned Timeline holds one event for each raw event that passed
\* the filter, built from that event alone, with no estimated_date, no
\* causal link and importance_score 0.5, and the final filter drops none.
AllRequestsFailedKeepsEveryEvent ==
    (pc = "done" /\ ~answered) =>
        /\ Len(timeline.events) = Len(valid_events)
        /\ event_groups = Singletons(Len(valid_events))
        /\ { timeline.events[k].oid : k \in 1..Len(timeline.events) } = 1..Len(valid_events)
        /\ \A k \in 1..Len(timeline.events) :
              timeline.events[k] = Untouched(timeline.events[k].oid)

\* C23's case: the grouping, an estimate, the relationships and the scoring
\* request all failed, and the Timeline of three events came back
ReturnedAfterFourFailures ==
    /\ pc = "done"
    /\ ~answered
    /\ oracle_calls >= 4
    /\ Len(timeline.events) = 3
    /\ \E k \in 1..3 : ~IsDate(timeline.events[k].date)


\* ------------------------------------------------------------- C24
\* what the filter is to let through
PassesFilter(event) ==
    /\ event.confidence >= MinConfidence
    /\ DescriptionLen(event.description) > MinDescriptionLen

\* the positions in the input of the raw events the filter is to keep
PassingPositions == { k \in 1..Len(all_events) : PassesFilter(all_events[k]) }

\* C24: once _filter_events has run, valid_events is the input with exactly
\* the events of confidence >= min_confidence and description longer than
\* 10 characters, in input order; and every raw event in the group of an
\* event of the returned Timeline is one of them.
OnlyFilteredEventsContribute ==
    /\ (pc = "group") => valid_events = SelectSeq(all_events, PassesFilter)
    /\ (pc = "done") =>
          /\ valid_events = SelectSeq(all_events, PassesFilter)
          /\ \A k \in 1..Len(timeline.events) :
                \A m \in Range(event_groups[timeline.events[k].oid]) :
                   m \in 1..Len(valid_events) /\ PassesFilter(valid_events[m])

\* C24's case: the second of three raw events was dropped, the first and
\* the third (one of them at exactly the minimum confidence) went on, in
\* that order, into the returned Timeline
MiddleEventFilteredOut ==
    /\ pc = "done"
    /\ Len(all_events) = 3
    /\ PassingPositions = {1, 3}
    /\ valid_events = <<all_events[1], all_events[3]>>
    /\ all_events[3].confidence = MinConfidence
    /\ Len(timeline.events) >= 1


\* ------------------------------------------------------------- C25
\* the events of the returned Timeline that have a date or an estimate
DatedOrEstimated ==
    { k \in 1..Len(timeline.events) :
        timeline.events[k].date # None \/ timeline.events[k].estimated_date # None }

\* C25: the completeness_score of a returned Timeline with n > 0 events, d
\* of them dated or estimated, is min(1, 1.2 * d / n): within [0, 1], 0 when
\* d = 0, and 1 whenever d / n >= 5/6.
CompletenessIsCappedScaledRatio ==
    (pc = "done" /\ timeline.events # <<>>) =>
        LET n == Len(timeline.events)
            d == Cardinality(DatedOrEstimated)
            c == timeline.completeness_score
        IN  /\ c.d > 0
            /\ IF 12 * d <= 10 * n THEN c.n * 10 * n = 12 * d * c.d ELSE c.n = c.d
            /\ 0 <= c.n /\ c.n <= c.d
            /\ (d = 0) => (c.n = 0)
            /\ (6 * d >= 5 * n) => (c.n = c.d)

\* C25's case: exactly five of the six events of the returned Timeline are
\* dated or estimated, after the filter dropped nothing, and the score is 1
FiveOfSixDated ==
    /\ pc = "done"
    /\ Len(timeline.events) = 6
    /\ Cardinality(DatedOrEstimated) = 5
    /\ \E k \in 1..6 : timeline.events[k].date = None /\ timeline.events[k].estimated_date # None
    /\ timeline.completeness_score.n = timeline.completeness_score.d


\* ------------------------------------------------------------- C26
\* C26: an article whose event-extraction request failed in one call of
\* extract_from_articles_with_cache is not served from the cache in the
\* next call: the failure does not come back as a stored result without
\* events.  The code breaks it: the result of extract_from_article, with
\* 'events': [] after the failed request, is stored like any other and
\* served by the next call.
FailedExtractionIsNotServed ==
    \A p \in 1..Len(cached_data) :
        (previous # <<>> /\ "events" \in previous[p].failed)
            => ~(UseCached(cached_data[p]) /\ cached_data[p].events = <<>>)


\* ------------------------------------------------------------- C27
\* C27: the results extract_from_articles_with_cache returns stand in the
\* order of their articles in the input, cache hits and misses alike, as
\* the results of extract_from_articles do.  The code breaks it: the hits
\* are appended in the lookup loop, the extracted articles after them.
ResultsInArticleOrder ==
    (x_pc = "returned") =>
        \A i, j \in 1..Len(origin) : i < j => origin[i] < origin[j]


\* ------------------------------------------------------------- C28
\* C28: every id in the causal_relationships of an event of the returned
\* Timeline is the id of an event of that Timeline.  The code breaks it:
\* _create_timeline drops the events scored below the importance
\* threshold and leaves the links of the others as they are.
LinksPointIntoTimeline ==
    (pc = "done") =>
        \A k \in 1..Len(timeline.events) :
            \A link \in Range(timeline.events[k].causal_relationships) :
                \E m \in 1..Len(timeline.events) : timeline.events[m].id = link

\* ------------------------------------------------------------- C29
\* C29: the events of one Timeline have different ids, so that an id in
\* causal_relationships names one event.  The code breaks it: the id is a
\* hash of the description alone, and two events left in different groups
\* may carry the same description.
TimelineIdsDistinct ==
    (pc = "done") =>
        \A k, m \in 1..Len(timeline.events) :
            k # m => timeline.events[k].id # timeline.events[m].id


\* ------------------------------------------------------------- C30
\* the type of value the request's output_type asks for
RequestedType ==
    IF output_type = "text" THEN "str"
    ELSE IF output_type = "json_array" THEN "list"
    ELSE "dict"

\* C30: whatever max_retries >= 0 is configured, a prompt_llm request with
\* valid parameters makes at least one oracle call and ends by returning a
\* value of the requested type or by raising LLMError.  The code breaks
\* it: with max_retries = 0 the loop has no turn, no call is made and the
\* function ends without a return statement, handing back None.
RequestEndsWithValueOrLLMError ==
    /\ (llm_pc = "returned") =>
          /\ llm_calls >= 1
          /\ llm_result.kind = "return"
          /\ llm_result.val.type = RequestedType
    /\ (llm_pc = "raised") =>
          /\ llm_calls >= 1
          /\ llm_result = Raised("LLMError")

=============================================================================
